---- MODULE Spec2Model ----
(***************************************************************************)
(* scriptify (src/src/main.rs): one run of the command line tool, from     *)
(* argument parsing to the final write, as a sequential state machine.     *)
(*                                                                         *)
(* A path is [abs, comps]: absolute or relative to the working directory,  *)
(* with its components.  A text is a sequence of tokens; the token "\n" is *)
(* a newline, any other token a newline-free piece of text.  An optional   *)
(* value is <<>> (none) or <<v>> (some v).                                 *)
(***************************************************************************)
EXTENDS Naturals, Sequences, FiniteSets

VARIABLES
    cli,            \* the parsed option set (struct Cli)
    env,            \* SCRIPTIFY_SHEBANG: <<>> unset, <<text>> set
    cwd,            \* the working directory (canonical components)
    files,          \* the regular files that exist (canonical components)
    toml,           \* what Cargo.toml files parse to
    manifest_text,  \* the raw text of manifest files
    pc,             \* position in main/run
    input,          \* run: the resolved input path
    code,           \* run: the consolidated code
    manifest,       \* run: the ManifestOption selected
    output_content, \* run: the assembled artifact
    events,         \* the filesystem and collaborator calls made so far
    sink,           \* what has been handed to the output sink, in order
    exit,           \* <<>> while running, <<status>> once the process ended
    err             \* "" or the error the run ended with

vars == <<cli, env, cwd, files, toml, manifest_text, pc, input, code,
          manifest, output_content, events, sink, exit, err>>

\* ---------------------------------------------------------------- bounds

MaxDepth == 2
MaxLen == 3
MaxBins == 2

\* ----------------------------------------------------------------- texts

NL == "\n"

DEFAULT_SHEBANG ==
    <<"#!/usr/bin/env -S RUSTC_BOOTSTRAP=1 RUSTFLAGS=-Coverflow-checks cargo run -qZscript --release --manifest-path">>

TextsOver(alphabet, n) == UNION {[1..k -> alphabet] : k \in 0..n}

ends_with_newline(t) == Len(t) > 0 /\ t[Len(t)] = NL

\* ----------------------------------------------------------------- paths

Abs(comps) == [abs |-> TRUE, comps |-> comps]
Rel(comps) == [abs |-> FALSE, comps |-> comps]

\* Path::join: an absolute argument replaces the base.
Join(base, p) ==
    IF p.abs THEN p ELSE [abs |-> base.abs, comps |-> base.comps \o p.comps]

RECURSIVE Norm(_, _)
Norm(comps, acc) ==
    IF comps = <<>> THEN acc
    ELSE LET c == Head(comps) IN
         IF c = "." THEN Norm(Tail(comps), acc)
         ELSE IF c = ".." THEN
            Norm(Tail(comps),
                 IF acc = <<>> THEN acc ELSE SubSeq(acc, 1, Len(acc) - 1))
         ELSE Norm(Tail(comps), Append(acc, c))

\* What the operating system makes of a path: the canonical components.
Resolve(p) == Norm(p.comps, IF p.abs THEN <<>> ELSE cwd)

Dir(n) == [i \in 1..n |-> "p"]
Dirs == {Dir(n) : n \in 0..MaxDepth}

IsPrefix(a, b) == Len(a) <= Len(b) /\ SubSeq(b, 1, Len(a)) = a
StrictlyAbove(a, b) == IsPrefix(a, b) /\ a # b

is_dir(p) == Resolve(p) \in Dirs
exists(p) == Resolve(p) \in files \/ Resolve(p) \in Dirs

\* Path::parent of a canonical path: none at the root.
parent(comps) ==
    IF comps = <<>> THEN <<>> ELSE <<SubSeq(comps, 1, Len(comps) - 1)>>

CargoToml == Rel(<<"Cargo.toml">>)
SrcMain == Rel(<<"src", "main.rs">>)
SrcLib == Rel(<<"src", "lib.rs">>)

\* ---------------------------------------------------------------- events

Ev(op, by, p) == [op |-> op, by |-> by, path |-> p]
NoPath == Rel(<<>>)

Ok(v, evs) == [ok |-> TRUE, val |-> v, err |-> "", evs |-> evs]
Err(e, evs) == [ok |-> FALSE, val |-> NoPath, err |-> e, evs |-> evs]

\* ------------------------------------------------------- Entry Resolver

\* Faulty variant: the [lib] path is looked at before the binary targets.
parse_entry_point_lib_first(m, base_dir) ==
    LET lib_path == Join(base_dir, SrcLib)
        main_path == Join(base_dir, SrcMain)
    IN  IF ~m.valid THEN Err("TomlParse", <<>>)
        ELSE IF m.lib.kind # "absent" /\ m.lib.path # <<>>
             THEN Ok(Join(base_dir, m.lib.path[1]), <<>>)
        ELSE IF m.bin.kind # "absent" /\ Len(m.bin.items) > 0
                /\ m.bin.items[1].path # <<>>
             THEN Ok(Join(base_dir, m.bin.items[1].path[1]), <<>>)
        ELSE IF m.lib.kind # "absent" /\ exists(lib_path) THEN Ok(lib_path, <<>>)
        ELSE IF exists(main_path) THEN Ok(main_path, <<>>)
        ELSE IF exists(lib_path) THEN Ok(lib_path, <<>>)
        ELSE Err("NoEntryPointDeterminable", <<>>)

\* Faulty variant: a declared [lib] without a path does not prefer src/lib.rs.
parse_entry_point_main_first(m, base_dir) ==
    LET lib_path == Join(base_dir, SrcLib)
        main_path == Join(base_dir, SrcMain)
    IN  IF ~m.valid THEN Err("TomlParse", <<>>)
        ELSE IF m.bin.kind # "absent" /\ Len(m.bin.items) > 0
                /\ m.bin.items[1].path # <<>>
             THEN Ok(Join(base_dir, m.bin.items[1].path[1]), <<>>)
        ELSE IF m.lib.kind # "absent" /\ m.lib.path # <<>>
             THEN Ok(Join(base_dir, m.lib.path[1]), <<>>)
        ELSE IF exists(main_path) THEN Ok(main_path, <<>>)
        ELSE IF exists(lib_path) THEN Ok(lib_path, <<>>)
        ELSE Err("NoEntryPointDeterminable", <<>>)

\* A parsed Cargo.toml: [valid, bin, lib].  bin is [kind, items] with kind
\* "absent", "array" ([[bin]], any number of entries) or "table" ([bin], one
\* entry); lib is [kind, path] with kind "absent" or "table".  An entry's path
\* is <<>> (no string under "path") or <<p>>.
parse_entry_point(m, base_dir) ==
    LET by == "parse_entry_point"
        lib_path == Join(base_dir, SrcLib)
        main_path == Join(base_dir, SrcMain)
        libDeclared == m.lib.kind # "absent"
        libProbe == IF libDeclared THEN <<Ev("exists", by, lib_path)>> ELSE <<>>
        defaults == libProbe \o <<Ev("exists", by, main_path)>>
    IN  IF ~m.valid THEN Err("TomlParse", <<>>)
        ELSE IF /\ m.bin.kind = "array"
                /\ Len(m.bin.items) > 0
                /\ m.bin.items[1].path # <<>>
             THEN Ok(Join(base_dir, m.bin.items[1].path[1]), <<>>)
        ELSE IF m.bin.kind = "table" /\ m.bin.items[1].path # <<>>
             THEN Ok(Join(base_dir, m.bin.items[1].path[1]), <<>>)
        ELSE IF libDeclared /\ m.lib.path # <<>>
             THEN Ok(Join(base_dir, m.lib.path[1]), <<>>)
        ELSE IF libDeclared /\ exists(lib_path)
             THEN Ok(lib_path, libProbe)
        ELSE IF exists(main_path)
             THEN Ok(main_path, defaults)
        ELSE IF exists(lib_path)
             THEN Ok(lib_path, defaults \o <<Ev("exists", by, lib_path)>>)
        ELSE Err("NoEntryPointDeterminable",
                 defaults \o <<Ev("exists", by, lib_path)>>)

resolve_input_path(inp) ==
    LET by == "resolve_input_path"
        manifest_path == Join(inp, CargoToml)
        e0 == <<Ev("is_dir", by, inp)>>
        e1 == e0 \o <<Ev("exists", by, manifest_path)>>
        e2 == e1 \o <<Ev("read", by, manifest_path)>>
    IN  IF ~is_dir(inp) THEN Ok(inp, e0)
        ELSE IF ~exists(manifest_path) THEN Err("NoManifestFound", e1)
        ELSE LET r == parse_entry_point(toml, inp)
             IN  [r EXCEPT !.evs = e2 \o r.evs]

\* ----------------------------------------------------- Manifest Locator

ManifestPath(p) == [tag |-> "Path", path |-> p]
ManifestEmpty == [tag |-> "Empty", path |-> NoPath]
ManifestNone == [tag |-> "None", path |-> NoPath]

\* Faulty variant: the loop never compares the current directory with stop_at.
RECURSIVE find_cargo_toml_unbounded(_, _)
find_cargo_toml_unbounded(current, stop_at) ==
    LET m == Join(Abs(current), CargoToml)
        probe == <<Ev("exists", "find_cargo_toml", m)>>
    IN  IF exists(m) THEN [val |-> <<m>>, evs |-> probe]
        ELSE IF parent(current) = <<>> THEN [val |-> <<>>, evs |-> probe]
        ELSE LET r == find_cargo_toml_unbounded(parent(current)[1], stop_at)
             IN  [r EXCEPT !.evs = probe \o r.evs]

\* The loop of find_cargo_toml on canonical components; stop_at is optional.
\* Returns [val, evs]: the optional manifest path and the existence checks made.
RECURSIVE find_cargo_toml(_, _)
find_cargo_toml(current, stop_at) ==
    LET m == Join(Abs(current), CargoToml)
        probe == <<Ev("exists", "find_cargo_toml", m)>>
    IN  IF exists(m) THEN [val |-> <<m>>, evs |-> probe]
        ELSE IF stop_at # <<>> /\ stop_at[1] = current
             THEN [val |-> <<>>, evs |-> probe]
        ELSE IF parent(current) = <<>> THEN [val |-> <<>>, evs |-> probe]
        ELSE LET r == find_cargo_toml(parent(current)[1], stop_at)
             IN  [r EXCEPT !.evs = probe \o r.evs]

\* Faulty variant: --stop-at-cwd is not passed on to the search.
resolve_manifest_no_boundary(c, inp) ==
    LET canon == <<Ev("canonicalize", "resolve_manifest", inp)>>
        search_from == parent(Resolve(inp))
    IN  IF c.empty_manifest THEN Ok(ManifestEmpty, <<>>)
        ELSE IF c.manifest # <<>> THEN Ok(ManifestPath(c.manifest[1]), <<>>)
        ELSE IF c.zscript THEN
            IF ~exists(inp) THEN Err("Io", canon)
            ELSE IF search_from = <<>>
                 THEN Err("Input file has no parent directory", canon)
            ELSE LET r == find_cargo_toml(search_from[1], <<>>)
                 IN  IF r.val # <<>>
                     THEN Ok(ManifestPath(r.val[1]), canon \o r.evs)
                     ELSE Ok(ManifestNone, canon \o r.evs)
        ELSE Ok(ManifestNone, <<>>)

\* Faulty variant: --zscript is looked at before --manifest.
resolve_manifest_zscript_first(c, inp) ==
    LET canon == <<Ev("canonicalize", "resolve_manifest", inp)>>
        search_from == parent(Resolve(inp))
        stop_at == IF c.stop_at_cwd THEN <<cwd>> ELSE <<>>
        found == find_cargo_toml(search_from[1], stop_at)
    IN  IF c.empty_manifest THEN Ok(ManifestEmpty, <<>>)
        ELSE IF c.zscript /\ exists(inp) /\ search_from # <<>>
                /\ found.val # <<>>
             THEN Ok(ManifestPath(found.val[1]), canon \o found.evs)
        ELSE IF c.manifest # <<>> THEN Ok(ManifestPath(c.manifest[1]), <<>>)
        ELSE Ok(ManifestNone, <<>>)

resolve_manifest(c, inp) ==
    LET by == "resolve_manifest"
        canon == <<Ev("canonicalize", by, inp)>>
        input_abs == Resolve(inp)
        search_from == parent(input_abs)
        stop_at == IF c.stop_at_cwd THEN <<cwd>> ELSE <<>>
    IN  IF c.empty_manifest THEN Ok(ManifestEmpty, <<>>)
        ELSE IF c.manifest # <<>> THEN Ok(ManifestPath(c.manifest[1]), <<>>)
        ELSE IF c.zscript THEN
            IF ~exists(inp) THEN Err("Io", canon)
            ELSE IF search_from = <<>>
                 THEN Err("Input file has no parent directory", canon)
            ELSE LET r == find_cargo_toml(search_from[1], stop_at)
                 IN  IF r.val # <<>>
                     THEN Ok(ManifestPath(r.val[1]), canon \o r.evs)
                     ELSE Ok(ManifestNone, canon \o r.evs)
        ELSE Ok(ManifestNone, <<>>)

\* ------------------------------------------------------ Highlight Stage

\* builtin::all(): the names of the theme catalog.
Catalog == {"Dracula", "Nord"}

to_lowercase(s) ==
    CASE s = "Dracula" -> "dracula"
      [] s = "Nord" -> "nord"
      [] s = "NORD" -> "nord"
      [] OTHER -> s

\* AnsiHighlighter::highlight: the text between escape sequences.
Colorized(t) == <<"\\e[1m">> \o t \o <<"\\e[0m">>

\* Faulty variant: an unknown theme degrades to the plain text like a highlighter failure.
highlight_code_unknown_falls_back(t, theme_name) ==
    LET call == <<Ev("highlight", "highlight_code", NoPath)>> IN
    IF to_lowercase(theme_name) \notin {to_lowercase(n) : n \in Catalog}
    THEN {Ok(t, <<>>)}
    ELSE {Ok(Colorized(t), call), Ok(t, call)}

\* The possible results of highlight_code: a failure of the highlighter itself
\* falls back to the plain text.
highlight_code(t, theme_name) ==
    LET call == <<Ev("highlight", "highlight_code", NoPath)>> IN
    IF to_lowercase(theme_name) \notin {to_lowercase(n) : n \in Catalog}
    THEN {Err("UnknownTheme", <<>>)}
    ELSE {Ok(Colorized(t), call), Ok(t, call)}

apply_syntax_highlighting(t, theme) ==
    IF theme = <<>> THEN {Ok(t, <<>>)} ELSE highlight_code(t, theme[1])

\* --------------------------------------------------- Script Materializer

\* Faulty variant: the environment override is not consulted.
get_shebang_default_only == DEFAULT_SHEBANG

get_shebang == IF env = <<>> THEN DEFAULT_SHEBANG ELSE env[1]

build_cargo_script_empty(t) ==
    get_shebang \o <<NL>> \o <<"---cargo", NL>> \o <<"[dependencies]", NL>>
        \o <<"---", NL, NL>> \o t

\* Faulty variant: the newline after the manifest text is pushed unconditionally.
build_cargo_script_with_manifest_always_newline(path, t) ==
    LET rd == <<Ev("read", "read_manifest", path)>> IN
    IF Resolve(path) \notin files THEN Err("ManifestRead", rd)
    ELSE Ok(get_shebang \o <<NL>> \o <<"---cargo", NL>> \o manifest_text
                \o <<NL>> \o <<"---", NL, NL>> \o t,
            rd)

build_cargo_script_with_manifest(path, t) ==
    LET rd == <<Ev("read", "read_manifest", path)>> IN
    IF Resolve(path) \notin files THEN Err("ManifestRead", rd)
    ELSE Ok(get_shebang \o <<NL>> \o <<"---cargo", NL>> \o manifest_text
                \o (IF ~ends_with_newline(manifest_text) THEN <<NL>> ELSE <<>>)
                \o <<"---", NL, NL>> \o t,
            rd)

format_output(t, m) ==
    IF m.tag = "Path" THEN build_cargo_script_with_manifest(m.path, t)
    ELSE IF m.tag = "Empty" THEN Ok(build_cargo_script_empty(t), <<>>)
    ELSE Ok(t, <<>>)

\* The possible results of prepare_output.
prepare_output(t, theme, m) ==
    {IF ~h.ok THEN h
     ELSE LET f == format_output(h.val, m) IN [f EXCEPT !.evs = h.evs \o f.evs] :
        h \in apply_syntax_highlighting(t, theme)}

\* ---------------------------------------------------- Module Consolidator

\* What consolidation of an existing source file can return.
Sources == {<<"fn main() {}", NL>>}

\* The possible results of inline_modules: the collaborator reads the entry
\* file and may reject what it finds.
inline_modules(inp) ==
    LET call == <<Ev("read", "inline_modules", inp)>> IN
    IF Resolve(inp) \notin files THEN {Err("Inline", call)}
    ELSE {Ok(t, call) : t \in Sources} \cup {Err("Inline", call)}

\* ----------------------------------------------------------- Orchestrator

\* Faulty variant: --theme does not conflict with --output.
clap_accepts_theme_with_output(c) ==
    /\ (c.stop_at_cwd => c.zscript)
    /\ ~(c.empty_manifest /\ (c.manifest # <<>> \/ c.zscript))

\* The conflicts_with / requires attributes of struct Cli, as clap checks them.
clap_accepts(c) ==
    /\ ~(c.theme # <<>> /\ c.output # <<>>)
    /\ (c.stop_at_cwd => c.zscript)
    /\ ~(c.empty_manifest /\ (c.manifest # <<>> \/ c.zscript))

\* Cli::parse(): clap ends the process on an invalid option set.
CliParse ==
    /\ pc = "parse"
    /\ IF clap_accepts(cli)
       THEN pc' = "main" /\ UNCHANGED <<exit, err>>
       ELSE pc' = "done" /\ exit' = <<2>> /\ err' = "Usage"
    /\ UNCHANGED <<cli, env, cwd, files, toml, manifest_text, input, code,
                   manifest, output_content, events, sink>>

\* main(): list the themes and return, or enter run().
Main ==
    /\ pc = "main"
    /\ IF cli.list_themes
       THEN /\ pc' = "done"
            /\ exit' = <<0>>
            /\ events' = Append(events, Ev("print", "list_themes", NoPath))
       ELSE /\ pc' = "resolve_input"
            /\ UNCHANGED <<exit, events>>
    /\ UNCHANGED <<cli, env, cwd, files, toml, manifest_text, input, code,
                   manifest, output_content, sink, err>>

\* run(): cli.input ... ok_or(..)? and resolve_input_path(input_path)?
ResolveInput ==
    /\ pc = "resolve_input"
    /\ LET r == IF cli.input = <<>> THEN Err("<INPUT> is required", <<>>)
                ELSE resolve_input_path(cli.input[1])
       IN  /\ events' = events \o r.evs
           /\ IF r.ok
              THEN /\ input' = r.val
                   /\ pc' = "inline_modules"
                   /\ UNCHANGED <<exit, err>>
              ELSE /\ pc' = "done"
                   /\ exit' = <<1>>
                   /\ err' = r.err
                   /\ UNCHANGED input
    /\ UNCHANGED <<cli, env, cwd, files, toml, manifest_text, code, manifest,
                   output_content, sink>>

\* run(): inline_modules(&input)?
InlineModules ==
    /\ pc = "inline_modules"
    /\ \E r \in inline_modules(input) :
           /\ events' = events \o r.evs
           /\ IF r.ok
              THEN /\ code' = r.val
                   /\ pc' = "resolve_manifest"
                   /\ UNCHANGED <<exit, err>>
              ELSE /\ pc' = "done"
                   /\ exit' = <<1>>
                   /\ err' = r.err
                   /\ UNCHANGED code
    /\ UNCHANGED <<cli, env, cwd, files, toml, manifest_text, input, manifest,
                   output_content, sink>>

\* run(): resolve_manifest(cli, &input)?
ResolveManifest ==
    /\ pc = "resolve_manifest"
    /\ LET r == resolve_manifest(cli, input)
       IN  /\ events' = events \o r.evs
           /\ IF r.ok
              THEN /\ manifest' = r.val
                   /\ pc' = "prepare_output"
                   /\ UNCHANGED <<exit, err>>
              ELSE /\ pc' = "done"
                   /\ exit' = <<1>>
                   /\ err' = r.err
                   /\ UNCHANGED manifest
    /\ UNCHANGED <<cli, env, cwd, files, toml, manifest_text, input, code,
                   output_content, sink>>

\* Faulty variant: run() goes on to the write when prepare_output fails.
PrepareOutput_error_not_propagated ==
    /\ pc = "prepare_output"
    /\ \E r \in prepare_output(code, cli.theme, manifest) :
           /\ events' = events \o r.evs
           /\ pc' = "write"
           /\ err' = r.err
           /\ output_content' = IF r.ok THEN r.val ELSE code
           /\ UNCHANGED exit
    /\ UNCHANGED <<cli, env, cwd, files, toml, manifest_text, input, code,
                   manifest, sink>>

\* run(): prepare_output(&code, cli.theme.as_deref(), manifest)?
PrepareOutput ==
    /\ pc = "prepare_output"
    /\ \E r \in prepare_output(code, cli.theme, manifest) :
           /\ events' = events \o r.evs
           /\ IF r.ok
              THEN /\ output_content' = r.val
                   /\ pc' = "write"
                   /\ UNCHANGED <<exit, err>>
              ELSE /\ pc' = "done"
                   /\ exit' = <<1>>
                   /\ err' = r.err
                   /\ UNCHANGED output_content
    /\ UNCHANGED <<cli, env, cwd, files, toml, manifest_text, input, code,
                   manifest, sink>>

\* run(): std::fs::write(out_path, output_content)? or print!; a failed
\* fs::write is an error of run, a failed print! panics.
WriteOutput ==
    /\ pc = "write"
    /\ \E written \in BOOLEAN :
           LET to_file == cli.output # <<>>
               target == IF to_file THEN cli.output[1] ELSE NoPath
           IN  /\ events' = Append(events,
                       Ev(IF to_file THEN "write" ELSE "print", "run", target))
               /\ pc' = "done"
               /\ IF written
                  THEN /\ sink' = Append(sink, [to |-> target, content |-> output_content])
                       /\ exit' = <<0>>
                       /\ UNCHANGED err
                  ELSE /\ exit' = IF to_file THEN <<1>> ELSE <<101>>
                       /\ err' = IF to_file THEN "Write" ELSE "panic"
                       /\ UNCHANGED sink
    /\ UNCHANGED <<cli, env, cwd, files, toml, manifest_text, input, code,
                   manifest, output_content>>

\* ------------------------------------------------------- initial states

Options ==
    [input |-> <<>>, output |-> <<>>, theme |-> <<>>, list_themes |-> FALSE,
     manifest |-> <<>>, zscript |-> FALSE, stop_at_cwd |-> FALSE,
     empty_manifest |-> FALSE]

FileInputs ==
    {Abs(d \o <<"a.rs">>) : d \in Dirs}
        \cup {Rel(<<"a.rs">>), Rel(<<"..", "a.rs">>), Rel(<<"missing.rs">>)}
DirInputs == {Abs(d) : d \in Dirs} \cup {Rel(<<".">>)}

\* The files on disk: a Cargo.toml in each directory of mans, a source file,
\* an embeddable manifest and a declared binary target in every directory, and
\* the conventional entry files where has_main / has_lib say so.
Disk(mans, has_main, has_lib) ==
    {d \o <<"Cargo.toml">> : d \in mans}
        \cup {d \o <<"a.rs">> : d \in Dirs}
        \cup {d \o <<"m.toml">> : d \in Dirs}
        \cup {d \o <<"src", "tool.rs">> : d \in Dirs}
        \cup (IF has_main THEN {d \o <<"src", "main.rs">> : d \in Dirs} ELSE {})
        \cup (IF has_lib THEN {d \o <<"src", "lib.rs">> : d \in Dirs} ELSE {})

DeclaredPaths == {Rel(<<"src", "tool.rs">>), Rel(<<"alt.rs">>)}
Entries == [path : {<<>>} \cup {<<p>> : p \in DeclaredPaths}]
NoBin == [kind |-> "absent", items |-> <<>>]
NoLib == [kind |-> "absent", path |-> <<>>]
BinDecls ==
    {NoBin}
        \cup {[kind |-> "array", items |-> s] :
                 s \in UNION {[1..k -> Entries] : k \in 0..MaxBins}}
        \cup {[kind |-> "table", items |-> <<e>>] : e \in Entries}
LibDecls ==
    {NoLib} \cup {[kind |-> "table", path |-> e.path] : e \in Entries}
InvalidToml == [valid |-> FALSE, bin |-> NoBin, lib |-> NoLib]
Tomls == {InvalidToml} \cup [valid : {TRUE}, bin : BinDecls, lib : LibDecls]
PlainToml == [valid |-> TRUE, bin |-> NoBin, lib |-> NoLib]

PlainText == <<"[package]", NL>>

Fresh ==
    /\ input = NoPath
    /\ code = <<>>
    /\ manifest = ManifestNone
    /\ output_content = <<>>
    /\ events = <<>>
    /\ sink = <<>>
    /\ exit = <<>>
    /\ err = ""

\* What run() has done before it calls resolve_manifest or prepare_output
\* on input i: the calls of resolve_input_path and inline_modules.
Earlier(i) ==
    resolve_input_path(i).evs
        \o <<Ev("read", "inline_modules", resolve_input_path(i).val)>>

BinToolToml ==
    [valid |-> TRUE,
     bin |-> [kind |-> "array",
              items |-> <<[path |-> <<Rel(<<"src", "tool.rs">>)>>]>>],
     lib |-> NoLib]

\* Every option set, on a disk that matters to the options given.
Init ==
    /\ pc = "parse"
    /\ Fresh
    /\ cli \in [input : {<<>>} \cup {<<p>> : p \in FileInputs \cup DirInputs},
                output : {<<>>, <<Rel(<<"out.rs">>)>>},
                theme : {<<>>, <<"NORD">>, <<"nope">>},
                list_themes : BOOLEAN,
                manifest : {<<>>, <<Rel(<<"m.toml">>)>>, <<Rel(<<"x.toml">>)>>},
                zscript : BOOLEAN,
                stop_at_cwd : BOOLEAN,
                empty_manifest : BOOLEAN]
    /\ env \in {<<>>, << <<"#!/usr/bin/env custom-runner">> >>}
    /\ cwd \in Dirs
    /\ toml \in {PlainToml, InvalidToml, BinToolToml}
    /\ manifest_text = PlainText
    /\ \E mans \in SUBSET Dirs, has_main \in BOOLEAN :
          /\ files = Disk(mans, has_main, FALSE)
          /\ (has_main => toml = PlainToml)
          /\ (~clap_accepts(cli) \/ cli.list_themes \/ cli.input = <<>>)
                => (mans = {} /\ ~has_main /\ cwd = <<>> /\ env = <<>>
                    /\ toml = PlainToml)
          /\ (cli.input # <<>> /\ cli.input[1] \notin DirInputs)
                => (~has_main /\ toml = PlainToml)

Next ==
    \/ CliParse
    \/ Main
    \/ ResolveInput
    \/ InlineModules
    \/ ResolveManifest
    \/ PrepareOutput
    \/ WriteOutput

Spec == Init /\ [][Next]_vars

\* Entry resolution of a directory input, over every manifest shape.
InitEntry ==
    /\ pc = "resolve_input"
    /\ Fresh
    /\ env = <<>>
    /\ manifest_text = PlainText
    /\ cwd \in Dirs
    /\ \E i \in DirInputs : cli = [Options EXCEPT !.input = <<i>>]
    /\ toml \in Tomls
    /\ \E mans \in {{}, Dirs}, has_main \in BOOLEAN, has_lib \in BOOLEAN :
          files = Disk(mans, has_main, has_lib)

NextEntry == ResolveInput

SpecEntry == InitEntry /\ [][NextEntry]_vars

\* Manifest discovery (--zscript), from every input and working directory.
InitLocate ==
    /\ pc = "resolve_manifest"
    /\ env = <<>>
    /\ manifest_text = PlainText
    /\ toml = BinToolToml
    /\ cwd \in Dirs
    /\ \E mans \in SUBSET Dirs : files = Disk(mans, FALSE, FALSE)
    /\ \E i \in FileInputs \cup DirInputs, stop \in BOOLEAN :
          /\ cli = [Options EXCEPT !.input = <<i>>, !.zscript = TRUE,
                                   !.stop_at_cwd = stop]
          /\ resolve_input_path(i).ok
          /\ Resolve(resolve_input_path(i).val) \in files
          /\ input = resolve_input_path(i).val
          /\ events = Earlier(i)
    /\ code \in Sources
    /\ manifest = ManifestNone
    /\ output_content = <<>>
    /\ sink = <<>>
    /\ exit = <<>>
    /\ err = ""

NextLocate == ResolveManifest

SpecLocate == InitLocate /\ [][NextLocate]_vars

\* Script materialization, over code, manifest texts and shebang overrides.
InitScript ==
    /\ pc = "prepare_output"
    /\ toml = PlainToml
    /\ cwd = <<>>
    /\ files = Disk({}, FALSE, FALSE)
    /\ env \in {<<>>} \cup {<<t>> : t \in TextsOver({"#!s"}, 1)}
    /\ manifest_text \in TextsOver({"m", NL}, MaxLen)
    /\ code \in TextsOver({"c", NL}, MaxLen)
    /\ \E th \in {<<>>, <<"NORD">>, <<"nope">>},
          m \in {<<>>, <<Rel(<<"m.toml">>)>>, <<Rel(<<"x.toml">>)>>},
          e \in BOOLEAN :
          /\ cli = [Options EXCEPT !.input = <<Abs(<<"a.rs">>)>>, !.theme = th,
                                   !.manifest = m, !.empty_manifest = e]
          /\ clap_accepts(cli)
    /\ input = Abs(<<"a.rs">>)
    /\ events = Earlier(input)
    /\ manifest = resolve_manifest(cli, input).val
    /\ output_content = <<>>
    /\ sink = <<>>
    /\ exit = <<>>
    /\ err = ""

NextScript == PrepareOutput

SpecScript == InitScript /\ [][NextScript]_vars

\* ------------------------------------------------------------ properties

EventsBy(by) == {i \in 1..Len(events) : events[i].by = by}
InputDir == cli.input[1]
DirHasManifest == Resolve(Join(InputDir, CargoToml)) \in files
OnDisk(p) == Resolve(p) \in files
Resolved == pc # "resolve_input"

\* ---- C1 (SpecEntry)
ArrayBinDeclared == toml.valid /\ toml.bin.kind = "array" /\ Len(toml.bin.items) > 0
FirstBinHasPath == ArrayBinDeclared /\ toml.bin.items[1].path # <<>>

\* C1 as claimed: whenever the directory's Cargo.toml declares an array-style
\* binary target, entry resolution succeeds with the directory joined with a
\* path declared by such a target.
C1_Original ==
    (Resolved /\ DirHasManifest /\ ArrayBinDeclared) =>
        /\ pc = "inline_modules"
        /\ \E k \in 1..Len(toml.bin.items) :
              /\ toml.bin.items[k].path # <<>>
              /\ input = [abs |-> InputDir.abs,
                          comps |-> InputDir.comps \o toml.bin.items[k].path[1].comps]

\* C1 amended: when the first [[bin]] entry declares a path, entry resolution
\* returns the directory joined with that path, whatever [lib] declares and
\* whether or not src/main.rs and src/lib.rs exist.
C1_FirstBinPathWins ==
    (Resolved /\ DirHasManifest /\ FirstBinHasPath) =>
        /\ pc = "inline_modules"
        /\ err = ""
        /\ input = [abs |-> InputDir.abs,
                    comps |-> InputDir.comps \o toml.bin.items[1].path[1].comps]

C1_Witness ==
    /\ pc = "inline_modules"
    /\ FirstBinHasPath
    /\ toml.lib.kind = "table" /\ toml.lib.path # <<>>
    /\ toml.lib.path # toml.bin.items[1].path
    /\ OnDisk(Join(InputDir, SrcMain))
    /\ OnDisk(Join(InputDir, SrcLib))
    /\ input = Join(InputDir, toml.bin.items[1].path[1])

\* ---- C2 (SpecEntry)
NoBinPath ==
    /\ toml.valid
    /\ ~FirstBinHasPath
    /\ ~(toml.bin.kind = "table" /\ toml.bin.items[1].path # <<>>)
LibDeclared == toml.lib.kind = "table"
Under(rel) == [abs |-> InputDir.abs, comps |-> InputDir.comps \o rel]

\* C2: with no binary-target path, entry resolution returns the first that
\* applies of the explicit [lib] path, src/lib.rs when [lib] is declared and
\* the file exists, src/main.rs when it exists, src/lib.rs when it exists; and
\* when none applies it fails with NoEntryPointDeterminable.
C2_FallbackOrder ==
    (Resolved /\ DirHasManifest /\ NoBinPath) =>
        IF LibDeclared /\ toml.lib.path # <<>>
        THEN pc = "inline_modules"
             /\ input = Under(toml.lib.path[1].comps)
        ELSE IF LibDeclared /\ OnDisk(Under(<<"src", "lib.rs">>))
        THEN pc = "inline_modules" /\ input = Under(<<"src", "lib.rs">>)
        ELSE IF OnDisk(Under(<<"src", "main.rs">>))
        THEN pc = "inline_modules" /\ input = Under(<<"src", "main.rs">>)
        ELSE IF OnDisk(Under(<<"src", "lib.rs">>))
        THEN pc = "inline_modules" /\ input = Under(<<"src", "lib.rs">>)
        ELSE pc = "done" /\ err = "NoEntryPointDeterminable" /\ exit = <<1>>
             /\ input = NoPath

C2_Witness ==
    /\ pc = "inline_modules"
    /\ DirHasManifest /\ NoBinPath
    /\ LibDeclared /\ toml.lib.path = <<>>
    /\ toml.bin.kind = "array" /\ Len(toml.bin.items) = 2
    /\ OnDisk(Under(<<"src", "main.rs">>))
    /\ input = Under(<<"src", "lib.rs">>)

C2_WitnessNone ==
    /\ pc = "done"
    /\ DirHasManifest /\ toml.valid
    /\ toml.bin.kind = "absent" /\ toml.lib.kind = "absent"
    /\ err = "NoEntryPointDeterminable"

\* ---- C3 (SpecLocate)
\* The directory the search starts in, the directory a path lies in, and the
\* directories find_cargo_toml has looked into.
SearchStart == SubSeq(Resolve(input), 1, Len(Resolve(input)) - 1)
DirOf(p) == SubSeq(p.comps, 1, Len(p.comps) - 1)
Examined == {DirOf(events[i].path) : i \in EventsBy("find_cargo_toml")}
Selected == pc \in {"prepare_output", "write"}
Discovery ==
    cli.zscript /\ cli.manifest = <<>> /\ ~cli.empty_manifest
BoundaryOnChain == cli.stop_at_cwd /\ IsPrefix(cwd, SearchStart)

\* C3: find_cargo_toml returns none or a Cargo.toml that exists directly
\* inside the start directory or one of its ancestors; and when the stop
\* boundary is met it looks into no directory above the boundary and returns
\* nothing from above it.
C3_BoundedUpwardSearch ==
    (Selected /\ Discovery) =>
        /\ manifest.tag \in {"Path", "None"}
        /\ manifest.tag = "Path" =>
              /\ manifest.path.abs
              /\ manifest.path.comps \in files
              /\ manifest.path.comps[Len(manifest.path.comps)] = "Cargo.toml"
              /\ IsPrefix(DirOf(manifest.path), SearchStart)
        /\ \A d \in Examined : IsPrefix(d, SearchStart)
        /\ BoundaryOnChain =>
              /\ \A d \in Examined : IsPrefix(cwd, d)
              /\ manifest.tag = "Path" => IsPrefix(cwd, DirOf(manifest.path))

C3_Witness ==
    /\ Selected /\ Discovery /\ BoundaryOnChain
    /\ StrictlyAbove(cwd, SearchStart)
    /\ \E d \in Dirs : StrictlyAbove(d, cwd) /\ (d \o <<"Cargo.toml">>) \in files
    /\ Examined = {SearchStart, cwd}
    /\ manifest = ManifestNone

\* ---- C4 (Spec)
\* C4 as claimed: with --zscript and --stop-at-cwd the manifest chosen by
\* discovery never lies in a directory strictly above the working directory.
C4_Original ==
    (Discovery /\ cli.stop_at_cwd /\ manifest.tag = "Path") =>
        ~StrictlyAbove(DirOf(manifest.path), cwd)

\* C4 amended: with --zscript and --stop-at-cwd, when the input file's
\* directory is the working directory or lies below it, the manifest chosen
\* by discovery lies in the working directory or below it.
C4_BoundedWhenInputUnderCwd ==
    (Discovery /\ cli.stop_at_cwd /\ manifest.tag = "Path"
        /\ IsPrefix(cwd, SearchStart)) =>
        /\ IsPrefix(cwd, DirOf(manifest.path))
        /\ ~StrictlyAbove(DirOf(manifest.path), cwd)

C4_Witness ==
    /\ Selected /\ Discovery /\ cli.stop_at_cwd
    /\ IsPrefix(cwd, SearchStart)
    /\ manifest.tag = "Path" /\ DirOf(manifest.path) = cwd
    /\ \E d \in Dirs : StrictlyAbove(d, cwd) /\ (d \o <<"Cargo.toml">>) \in files

\* ---- C10 (Spec)
FoundByProbe ==
    \E i \in EventsBy("find_cargo_toml") : Resolve(events[i].path) \in files

\* C10: resolve_manifest selects Empty under --empty-manifest; otherwise the
\* explicit --manifest path, without any upward search even under --zscript;
\* otherwise, under --zscript, the manifest the search found, or Absent when
\* it found none; otherwise Absent.  It never fails the run.
C10_ManifestPrecedence ==
    /\ err \notin {"Io", "Input file has no parent directory"}
    /\ Selected =>
        IF cli.empty_manifest
        THEN manifest = ManifestEmpty /\ EventsBy("find_cargo_toml") = {}
        ELSE IF cli.manifest # <<>>
        THEN /\ manifest = [tag |-> "Path", path |-> cli.manifest[1]]
             /\ EventsBy("find_cargo_toml") = {}
        ELSE IF cli.zscript
        THEN IF FoundByProbe
             THEN /\ manifest.tag = "Path"
                  /\ manifest.path.comps \in files
                  /\ \E i \in EventsBy("find_cargo_toml") :
                        events[i].path = manifest.path
             ELSE manifest = ManifestNone /\ EventsBy("find_cargo_toml") # {}
        ELSE manifest = ManifestNone /\ EventsBy("find_cargo_toml") = {}

C10_Witness ==
    /\ Selected
    /\ cli.zscript /\ cli.manifest # <<>>
    /\ (SearchStart \o <<"Cargo.toml">>) \in files
    /\ manifest = [tag |-> "Path", path |-> cli.manifest[1]]

\* ---- C5 (SpecScript)
\* The code part of the artifact is the code or its colorized form; the
\* embedded manifest is what lies between the "---cargo" line and the
\* closing "---" line of an artifact whose code part is h.
ShebangLine == IF env = <<>> THEN DEFAULT_SHEBANG ELSE env[1]
CodeParts == {code, <<"\\e[1m">> \o code \o <<"\\e[0m">>}
Embedded(h) ==
    SubSeq(output_content, Len(ShebangLine) + 4,
           Len(output_content) - Len(h) - 3)
Framed(h) ==
    output_content =
        ShebangLine \o <<NL, "---cargo", NL>> \o Embedded(h)
            \o <<"---", NL, NL>> \o h
TrailingNewlines(t) ==
    IF \A i \in 1..Len(t) : t[i] = NL THEN Len(t)
    ELSE Len(t) - (CHOOSE i \in 1..Len(t) :
                      t[i] # NL /\ \A j \in (i + 1)..Len(t) : t[j] = NL)
Materialized == pc = "write" /\ manifest.tag = "Path"

\* C5 as claimed: whatever the manifest file holds, the embedded manifest
\* text ends with exactly one newline before the closing delimiter.
C5_Original ==
    Materialized =>
        \E h \in CodeParts : Framed(h) /\ TrailingNewlines(Embedded(h)) = 1

\* C5 amended: the embedded manifest text is the file's text with one newline
\* appended only when the text does not end with one; so it always ends with a
\* newline, with exactly one when the file is empty or ends with at most one
\* newline, and with the file's own trailing newlines when it ends with several.
C5_NewlineOnlyIfMissing ==
    Materialized =>
        \E h \in CodeParts :
            /\ Framed(h)
            /\ TrailingNewlines(Embedded(h)) >= 1
            /\ TrailingNewlines(manifest_text) = 0 =>
                  Embedded(h) = manifest_text \o <<NL>>
            /\ TrailingNewlines(manifest_text) >= 1 =>
                  Embedded(h) = manifest_text
            /\ TrailingNewlines(manifest_text) <= 1 =>
                  TrailingNewlines(Embedded(h)) = 1

C5_Witness ==
    /\ Materialized
    /\ manifest_text # <<>> /\ TrailingNewlines(manifest_text) = 0
    /\ \E h \in CodeParts :
          Framed(h) /\ Embedded(h) = manifest_text \o <<NL>>

\* ---- C6 (SpecScript)
ExpectedBody ==
    IF manifest.tag = "Empty" THEN <<"[dependencies]", NL>>
    ELSE IF TrailingNewlines(manifest_text) = 0 THEN manifest_text \o <<NL>>
    ELSE manifest_text

InvalidOptions ==
    \/ cli.theme # <<>> /\ cli.output # <<>>
    \/ cli.empty_manifest /\ cli.manifest # <<>>
    \/ cli.empty_manifest /\ cli.zscript
    \/ cli.stop_at_cwd /\ ~cli.zscript
    \/ cli.input = <<>> /\ ~cli.list_themes

\* C7: an invalid option set is rejected with an error, and no filesystem
\* read, collaborator call or write has taken place in its run.
C7_RejectedBeforeAnyWork ==
    InvalidOptions =>
        /\ events = <<>>
        /\ sink = <<>>
        /\ pc \in {"parse", "main", "resolve_input", "done"}
        /\ pc = "done" => (exit \in {<<1>>, <<2>>} /\ err # "")
        /\ (input = NoPath /\ code = <<>> /\ output_content = <<>>)

C7_Witness ==
    /\ pc = "done"
    /\ cli.theme # <<>> /\ cli.output # <<>> /\ cli.input # <<>>
    /\ ~cli.list_themes
    /\ exit = <<2>> /\ events = <<>>

\* ---- C8 (Spec)
UnknownThemeRequested ==
    /\ cli.theme # <<>>
    /\ cli.theme[1] \notin {"Dracula", "dracula", "DRACULA", "Nord", "nord", "NORD"}
Runs == ~InvalidOptions /\ ~cli.list_themes
IsRead(e) == e.op \in {"read", "is_dir", "exists", "canonicalize"}

\* C8 as claimed: the unknown-theme error is raised before any I/O: no file
\* has been read or looked at and no consolidation has run.
C8_Original ==
    (UnknownThemeRequested /\ err = "UnknownTheme") =>
        \A i \in 1..Len(events) : ~IsRead(events[i])

\* C8 amended: a run that requests a theme outside the catalog fails with
\* exit status 1 and writes nothing; once entry resolution, consolidation and
\* manifest selection have succeeded the failure is the unknown-theme error,
\* raised after the reads of those stages and after the consolidation, and
\* before the highlighter is called, the manifest text read or anything
\* written.
C8_UnknownThemeFailsAfterConsolidation ==
    (UnknownThemeRequested /\ Runs) =>
        /\ pc # "write"
        /\ sink = <<>>
        /\ pc = "done" =>
              /\ exit = <<1>>
              /\ err \in {"NoManifestFound", "TomlParse",
                          "NoEntryPointDeterminable", "Inline", "UnknownTheme"}
              /\ code # <<>> => err = "UnknownTheme"
        /\ err = "UnknownTheme" =>
              /\ EventsBy("inline_modules") # {}
              /\ events[Len(events)].by \in {"inline_modules", "resolve_manifest",
                                              "find_cargo_toml"}
              /\ EventsBy("highlight_code") = {}
              /\ EventsBy("read_manifest") = {}
              /\ EventsBy("run") = {}

C8_Witness ==
    /\ pc = "done"
    /\ err = "UnknownTheme"
    /\ cli.theme = <<"nope">>
    /\ manifest.tag = "Path"
    /\ \E i \in 1..Len(events) : events[i].op = "read"

\* ---- C9 (Spec)
Writes == {i \in 1..Len(events) : events[i].by = "run"}
StageErrors ==
    {"<INPUT> is required", "NoManifestFound", "TomlParse",
     "NoEntryPointDeterminable", "Inline", "Io",
     "Input file has no parent directory", "UnknownTheme", "ManifestRead"}

\* C9: the sink is written at most once, as the last call of the run and only
\* with the artifact assembled after every earlier stage succeeded; a run in
\* which one of those stages fails writes nothing and ends with status 1.
C9_WriteOnlyAfterSuccess ==
    /\ Cardinality(Writes) <= 1
    /\ Len(sink) <= Cardinality(Writes)
    /\ Writes # {} =>
          /\ Writes = {Len(events)}
          /\ pc = "done"
          /\ err \notin StageErrors
          /\ EventsBy("inline_modules") # {}
          /\ code \in Sources
          /\ manifest.tag = "Path" => EventsBy("read_manifest") # {}
    /\ sink # <<>> =>
          /\ sink[1].content = output_content
          /\ Len(output_content) >= Len(code)
          /\ exit = <<0>> /\ err = ""
    /\ err \in StageErrors =>
          /\ Writes = {} /\ sink = <<>>
          /\ pc = "done" /\ exit = <<1>>

C9_Witness ==
    /\ pc = "done"
    /\ err = "ManifestRead"
    /\ code # <<>>
    /\ sink = <<>> /\ Writes = {}
    /\ exit = <<1>>

====
